---- MODULE Spec2Model ----
(***************************************************************************)
(* FamPoints bot (src/index.js): the SQLite tables, the upsertUser helper, *)
(* the /me and /myinvite commands and the bot.on("message") handler        *)
(* (join tracking, message counter, karma with cooldown, confirmation      *)
(* sweep).  Every handler is computed as the sequence of database states   *)
(* its store statements produce, in source order: a completed handler      *)
(* leaves the last one, a handler whose process stops between two          *)
(* statements leaves an earlier one (every statement autocommits, the      *)
(* source opens no transaction).                                           *)
(***************************************************************************)
EXTENDS Integers, Sequences, FiniteSets, TLC

\* ---------------------------------------------------------------- bounds
MaxWork == 5          \* Spec: total of the counters and rows the events add
MaxWorkKarma == 4     \* SpecKarma: the same total, for messaging histories
MaxWorkCrash == 4     \* SpecCrash: the same total, for histories with a crash
MaxWorkChats == 3     \* SpecChats: the same total, over both chats
MaxWorkBacklog == 9   \* SpecBacklog: the same total, for a backlog of joins
MaxTicks == 2         \* clock advances
MaxTokens == 2        \* invite links the Telegram API mints

\* ------------------------------------------------------ program constants
KARMA_COOLDOWN_SECONDS == 30
INVITE_CONFIRM_AFTER_SECONDS == 24 * 3600
INVITE_CONFIRM_MIN_MESSAGES == 3
BatchLimit == 5

\* ------------------------------------------------------------ input sets
Chats == {1, 2}
Users == 1 .. 7
Members == {1, 2, 3}   \* the users who send updates in Spec, SpecCrash, SpecKarma
NoUser == 0          \* ctx.from absent / reply_to_message.from without id
NoReply == -1        \* no reply_to_message.from
NoToken == 0         \* no invite_link on the service message
NoCooldown == -1     \* no karma_cooldowns row
\* The clock advances along a schedule that lands on both sides of a
\* threshold.  For the cooldown: 0, 10, 30, 86400, ...
CooldownTickStep(k) == IF k % 3 = 0 THEN 10
                       ELSE IF k % 3 = 1 THEN 20
                       ELSE INVITE_CONFIRM_AFTER_SECONDS - 30
\* For the confirmation age: 0, 30, 86400, 86430, ...
AgeTickStep(k) == IF k % 2 = 0 THEN 30
                  ELSE INVITE_CONFIRM_AFTER_SECONDS - 30

\* message texts, as sequences of characters; <<>> is "no text"
NoText == << >>
Texts == { NoText, <<"h">>, <<"/", "h">>, <<" ", "/", "h">>,
           <<"+">>, <<" ", "+", " ">>, <<" ">> }

VARIABLES
  db,        \* the five tables of fampoints.db
  clock,     \* Date.now() / 1000, floored
  issued,    \* number of links the Telegram API has minted so far
  ticks,     \* clock advances so far
  lastEv,    \* observer: the update handled by the last step
  grantLog   \* observer: the "+" replies that changed a karma counter

vars == <<db, clock, issued, ticks, lastEv, grantLog>>

\* ----------------------------------------------------------------- rows
NoStats == [exists |-> FALSE, messages |-> 0, karma |-> 0, karma_given |-> 0,
            invites_pending |-> 0, invites_confirmed |-> 0]
NewStats == [NoStats EXCEPT !.exists = TRUE]
NoJoin == [exists |-> FALSE, inviter_id |-> NoUser, joined_at |-> 0,
           confirmed |-> FALSE]

EmptyDb ==
  [users           |-> [c \in Chats |-> [u \in Users |-> FALSE]],
   stats           |-> [c \in Chats |-> [u \in Users |-> NoStats]],
   karma_cooldowns |-> [c \in Chats |-> [u \in Users |-> NoCooldown]],
   invite_links    |-> [c \in Chats |-> [u \in Users |-> NoToken]],
   invite_joins    |-> [c \in Chats |-> [u \in Users |-> NoJoin]]]

\* ------------------------------------------------------ statement traces
\* A trace is the sequence of database states a handler has produced so far.
Cur(tr) == tr[Len(tr)]
Step(tr, d) == Append(tr, d)

\* The({e : x \in {v}}) is e with x naming the value of v, computed once
The(S) == CHOOSE x \in S : TRUE

\* ----------------------------------------------------------- statements
InsertUserRow(d, c, u) == [d EXCEPT !.users[c][u] = TRUE]

InsertStatsRow(d, c, u) ==
  IF d.stats[c][u].exists THEN d ELSE [d EXCEPT !.stats[c][u] = NewStats]

upsertUser(tr, c, u) ==
  IF u = NoUser THEN tr
  ELSE The({The({Step(t1, InsertStatsRow(Cur(t1), c, u))
                 : t1 \in {Step(t0, InsertUserRow(Cur(t0), c, u))}})
            : t0 \in {tr}})

\* UPDATE ... WHERE chat_id=? AND user_id=? touches nothing when no row matches
IncMessages(d, c, u) ==
  IF d.stats[c][u].exists
  THEN [d EXCEPT !.stats[c][u].messages = @ + 1] ELSE d

IncKarma(d, c, u) ==
  IF d.stats[c][u].exists
  THEN [d EXCEPT !.stats[c][u].karma = @ + 1] ELSE d

IncKarmaGiven(d, c, u) ==
  IF d.stats[c][u].exists
  THEN [d EXCEPT !.stats[c][u].karma_given = @ + 1] ELSE d

IncInvitesPending(d, c, u) ==
  IF d.stats[c][u].exists
  THEN [d EXCEPT !.stats[c][u].invites_pending = @ + 1] ELSE d

UpsertCooldown(d, c, u, t) == [d EXCEPT !.karma_cooldowns[c][u] = t]

\* INSERT OR REPLACE instead of ON CONFLICT DO NOTHING
InsertJoinRowReplace(d, c, j, inviterId, t) ==
  [d EXCEPT !.invite_joins[c][j] =
     [exists |-> TRUE, inviter_id |-> inviterId, joined_at |-> t,
      confirmed |-> FALSE]]

\* ON CONFLICT DO UPDATE SET joined_at = excluded.joined_at
InsertJoinRowRestamp(d, c, j, inviterId, t) ==
  IF d.invite_joins[c][j].exists
  THEN [d EXCEPT !.invite_joins[c][j].joined_at = t]
  ELSE [d EXCEPT !.invite_joins[c][j] =
          [exists |-> TRUE, inviter_id |-> inviterId, joined_at |-> t,
           confirmed |-> FALSE]]

InsertJoinRow(d, c, j, inviterId, t) ==
  IF d.invite_joins[c][j].exists THEN d
  ELSE [d EXCEPT !.invite_joins[c][j] =
          [exists |-> TRUE, inviter_id |-> inviterId, joined_at |-> t,
           confirmed |-> FALSE]]

SetConfirmed(d, c, j) ==
  IF d.invite_joins[c][j].exists
  THEN [d EXCEPT !.invite_joins[c][j].confirmed = TRUE] ELSE d

\* the pending count is moved out but never added to the confirmed count
ConfirmInviterStatsLost(d, c, i) ==
  IF d.stats[c][i].exists
  THEN [d EXCEPT !.stats[c][i].invites_pending = IF @ > 0 THEN @ - 1 ELSE 0]
  ELSE d

ConfirmInviterStats(d, c, i) ==
  IF d.stats[c][i].exists
  THEN [d EXCEPT !.stats[c][i].invites_pending = IF @ > 0 THEN @ - 1 ELSE 0,
                 !.stats[c][i].invites_confirmed = @ + 1]
  ELSE d

\* a plain INSERT: a row with the same primary key makes the statement fail
InsertLinkRow(d, c, u, tok) ==
  IF d.invite_links[c][u] # NoToken THEN d
  ELSE [d EXCEPT !.invite_links[c][u] = tok]

\* ---------------------------------------------------------------- text
IsSpace(ch) == ch = " "

RECURSIVE TrimLeft(_)
TrimLeft(s) ==
  IF s = << >> THEN s
  ELSE IF IsSpace(Head(s)) THEN TrimLeft(Tail(s)) ELSE s

RECURSIVE TrimRight(_)
TrimRight(s) ==
  IF s = << >> THEN s
  ELSE IF IsSpace(s[Len(s)]) THEN TrimRight(SubSeq(s, 1, Len(s) - 1)) ELSE s

Trim(s) == TrimRight(TrimLeft(s))

StartsWithSlash(s) == s # << >> /\ Head(s) = "/"

\* ------------------------------------------------------------- queries
\* the chat_id condition left out of the WHERE clause
LookupInviterAnyChat(d, c, tok) ==
  LET owners == {u \in Users : \E k \in Chats : d.invite_links[k][u] = tok}
  IN IF tok = NoToken \/ owners = {} THEN NoUser
     ELSE CHOOSE u \in owners : \A v \in owners : u <= v

\* SELECT inviter_id FROM invite_links WHERE chat_id=? AND invite_link=?
LookupInviter(d, c, tok) ==
  LET owners == {u \in Users : d.invite_links[c][u] = tok}
  IN IF tok = NoToken \/ owners = {} THEN NoUser
     ELSE CHOOSE u \in owners : \A v \in owners : u <= v

IsCandidate(d, c, j) ==
  /\ d.invite_joins[c][j].exists
  /\ ~d.invite_joins[c][j].confirmed
  /\ d.invite_joins[c][j].inviter_id # NoUser

\* SELECT ... WHERE chat_id=? AND confirmed=0 AND inviter_id IS NOT NULL LIMIT 5
\* The rows come out of the primary-key index, by ascending joined_user_id.
RECURSIVE CandidatesFrom(_, _, _, _)
CandidatesFrom(d, c, S, room) ==
  IF room = 0 THEN << >>
  ELSE The({IF X = {} THEN << >>
            ELSE The({<<[joined_user_id |-> j,
                         inviter_id |-> d.invite_joins[c][j].inviter_id,
                         joined_at |-> d.invite_joins[c][j].joined_at]>>
                      \o CandidatesFrom(d, c, X \ {j}, room - 1)
                      : j \in {CHOOSE u \in X : \A v \in X : u <= v}})
            : X \in {S}})

SelectCandidates(d, c) ==
  CandidatesFrom(d, c, {j \in Users : IsCandidate(d, c, j)}, BatchLimit)

MsgCount(d, c, u) == IF d.stats[c][u].exists THEN d.stats[c][u].messages ELSE 0

\* ---------------------------------------------------- confirmation sweep
\* the delay taken as 24 * 60 seconds
TooYoungMinutes(t, joinedAt) == (t - joinedAt) < 24 * 60
TooYoung(t, joinedAt) == (t - joinedAt) < INVITE_CONFIRM_AFTER_SECONDS
TooQuiet(msgCount) == msgCount < INVITE_CONFIRM_MIN_MESSAGES

RECURSIVE ConfirmLoop(_, _, _, _)
ConfirmLoop(tr, c, cands, t) ==
  The({IF q = << >> THEN t0
       ELSE The({IF TooYoung(t, cand.joined_at) THEN ConfirmLoop(t0, c, rest, t)
                 ELSE IF TooQuiet(MsgCount(Cur(t0), c, cand.joined_user_id))
                 THEN ConfirmLoop(t0, c, rest, t)
                 ELSE The({The({ConfirmLoop(t2, c, rest, t)
                                : t2 \in {Step(t1, ConfirmInviterStats(
                                                     Cur(t1), c, cand.inviter_id))}})
                           : t1 \in {Step(t0, SetConfirmed(
                                                Cur(t0), c, cand.joined_user_id))}})
                 : <<cand, rest>> \in {<<Head(q), Tail(q)>>}})
       : <<t0, q>> \in {<<tr, cands>>}})

ConfirmSweep(tr, c, t) ==
  The({ConfirmLoop(t0, c, SelectCandidates(Cur(t0), c), t) : t0 \in {tr}})

\* ------------------------------------------------------- join tracking
TrackJoin(tr, c, j, tok, t) ==
  The({The({The({IF inviterId = NoUser THEN t2
                 ELSE The({Step(t3, IncInvitesPending(Cur(t3), c, inviterId))
                           : t3 \in {Step(t2, InsertStatsRow(Cur(t2), c, inviterId))}})
                 : t2 \in {Step(t1, InsertJoinRow(Cur(t1), c, j, inviterId, t))}})
            : inviterId \in {LookupInviter(Cur(t1), c, tok)}})
       : t1 \in {upsertUser(tr, c, j)}})

\* the join branch falls through to the confirmation checks
RECURSIVE TrackJoinsSweeping(_, _, _, _, _)
TrackJoinsSweeping(tr, c, members, tok, t) ==
  IF members = << >> THEN ConfirmSweep(tr, c, t)
  ELSE TrackJoinsSweeping(TrackJoin(tr, c, Head(members), tok, t),
                          c, Tail(members), tok, t)

RECURSIVE TrackJoins(_, _, _, _, _)
TrackJoins(tr, c, members, tok, t) ==
  IF members = << >> THEN tr
  ELSE TrackJoins(TrackJoin(tr, c, Head(members), tok, t), c, Tail(members), tok, t)

\* --------------------------------------------------------------- karma
\* no "+" reply is taken for a reply to oneself
IsSelfGrantNever(u, target) == FALSE
IsSelfGrant(u, target) == target = u

\* a giver who has granted once is rejected for good
OnCooldownForever(cd, t) == cd # NoCooldown

\* the comparison turned around
OnCooldownInverted(cd, t) == cd # NoCooldown /\ (t - cd) > KARMA_COOLDOWN_SECONDS
OnCooldown(cd, t) == cd # NoCooldown /\ (t - cd) < KARMA_COOLDOWN_SECONDS

IsPlusReply(raw, target) == raw # NoText /\ Trim(raw) = <<"+">> /\ target # NoReply

\* the command test applied to the untrimmed text
CountedRaw(raw) == raw # NoText /\ ~StartsWithSlash(raw)
Counted(raw) == raw # NoText /\ ~StartsWithSlash(Trim(raw))

\* the recipient's rows are not created before the increment
GrantKarmaNoUpsert(tr, c, u, target, t) ==
  The({The({The({Step(t3, IncKarmaGiven(Cur(t3), c, u))
                 : t3 \in {Step(t1, IncKarma(Cur(t1), c, target))}})
            : t1 \in {Step(t0, UpsertCooldown(Cur(t0), c, u, t))}})
       : t0 \in {tr}})

GrantKarma(tr, c, u, target, t) ==
  The({The({The({The({Step(t3, IncKarmaGiven(Cur(t3), c, u))
                      : t3 \in {Step(t2, IncKarma(Cur(t2), c, target))}})
                 : t2 \in {upsertUser(t1, c, target)}})
            : t1 \in {Step(t0, UpsertCooldown(Cur(t0), c, u, t))}})
       : t0 \in {tr}})

\* ------------------------------------------------- bot.on("message")
\* ev = [chat, from, text, reply_to, new_chat_members, invite_link]
onMessage(tr, ev, t) ==
  LET c == ev.chat
      u == ev.from
  IN IF ev.new_chat_members # << >>
     THEN TrackJoins(tr, c, ev.new_chat_members, ev.invite_link, t)
     ELSE IF u = NoUser THEN tr
     ELSE The({The({IF IsPlusReply(ev.text, ev.reply_to)
                    THEN IF ev.reply_to = NoUser THEN t2
                         ELSE IF IsSelfGrant(u, ev.reply_to) THEN t2
                         ELSE IF OnCooldown(Cur(t2).karma_cooldowns[c][u], t) THEN t2
                         ELSE ConfirmSweep(GrantKarma(t2, c, u, ev.reply_to, t), c, t)
                    ELSE ConfirmSweep(t2, c, t)
                    : t2 \in {IF Counted(ev.text)
                              THEN Step(t1, IncMessages(Cur(t1), c, u)) ELSE t1}})
               : t1 \in {upsertUser(tr, c, u)}})

\* ------------------------------------------------- bot.command("me")
onMe(tr, c, u) == upsertUser(tr, c, u)

\* --------------------------------------------- bot.command("myinvite")
\* created = 0 when ctx.api.createChatInviteLink rejects, else the new link
\* the stored link is not looked at
NeedsLinkAlways(d, c, u) == TRUE
NeedsLink(d, c, u) == d.invite_links[c][u] = NoToken

\* the row is written, with a placeholder, before the creator is called
onMyInviteRowFirst(tr, c, u, created) ==
  The({The({IF ~NeedsLink(Cur(t1), c, u) THEN t1
            ELSE IF created = NoToken THEN t2
            ELSE Step(t2, [Cur(t2) EXCEPT !.invite_links[c][u] = created])
            : t2 \in {Step(t1, InsertLinkRow(Cur(t1), c, u, -1))}})
       : t1 \in {upsertUser(tr, c, u)}})

onMyInvite(tr, c, u, created) ==
  The({IF ~NeedsLink(Cur(t1), c, u) THEN t1
       ELSE IF created = NoToken THEN t1
       ELSE Step(t1, InsertLinkRow(Cur(t1), c, u, created))
       : t1 \in {upsertUser(tr, c, u)}})

\* ------------------------------------------------------------ observers
NoEvent == [kind |-> "none", done |-> TRUE, chat |-> 0, from |-> NoUser,
            text |-> NoText, reply_to |-> NoReply,
            new_chat_members |-> << >>, invite_link |-> NoToken,
            called |-> FALSE, failed |-> FALSE, reply |-> NoToken]

KarmaTouched(d, e, c) ==
  \E u \in Users : \/ d.stats[c][u].karma # e.stats[c][u].karma
                   \/ d.stats[c][u].karma_given # e.stats[c][u].karma_given

Observe(d, e, ev, t) ==
  IF KarmaTouched(d, e, ev.chat)
  THEN Append(grantLog, [chat |-> ev.chat, giver |-> ev.from,
                         recipient |-> ev.reply_to, at |-> t])
  ELSE grantLog

\* --------------------------------------------------------------- state
RowWork(r) == r.messages + r.invites_pending + r.invites_confirmed

RECURSIVE SumRowWork(_, _)
SumRowWork(rows, n) ==
  IF n = 0 THEN 0 ELSE RowWork(rows[n]) + SumRowWork(rows, n - 1)

RECURSIVE SumChatWork(_, _)
SumChatWork(d, S) ==
  IF S = {} THEN 0
  ELSE LET c == CHOOSE y \in S : TRUE
       IN SumRowWork(d.stats[c], Cardinality(Users))
          + Cardinality({j \in Users : /\ d.invite_joins[c][j].exists
                                       /\ d.invite_joins[c][j].inviter_id = NoUser})
          + SumChatWork(d, S \ {c})

\* what the events so far have added to the counters of stats, plus the join
\* rows without an inviter (which add to no counter)
Work == SumChatWork(db, Chats)

Init ==
  /\ db = EmptyDb
  /\ clock = 0
  /\ issued = 0
  /\ ticks = 0
  /\ lastEv = NoEvent
  /\ grantLog = << >>

MessageEvent(c, u, raw, target) ==
  [chat |-> c, from |-> u, text |-> raw, reply_to |-> target,
   new_chat_members |-> << >>, invite_link |-> NoToken]

JoinEvent(c, u, members, tok) ==
  [chat |-> c, from |-> u, text |-> NoText, reply_to |-> NoReply,
   new_chat_members |-> members, invite_link |-> tok]

\* a message update that is not a join, handled to completion
ReduceMessage(c, u, raw, target) ==
  /\ LET ev == MessageEvent(c, u, raw, target)
         tr == onMessage(<<db>>, ev, clock)
     IN /\ db' = Cur(tr)
        /\ grantLog' = Observe(db, Cur(tr), ev, clock)
        /\ lastEv' = [NoEvent EXCEPT !.kind = "message", !.chat = c, !.from = u,
                                     !.text = raw, !.reply_to = target]
  /\ UNCHANGED <<clock, issued, ticks>>

\* a new_chat_members service message, handled to completion
ReduceJoin(c, u, members, tok) ==
  /\ LET ev == JoinEvent(c, u, members, tok)
         tr == onMessage(<<db>>, ev, clock)
     IN /\ db' = Cur(tr)
        /\ lastEv' = [NoEvent EXCEPT !.kind = "join", !.chat = c, !.from = u,
                                     !.new_chat_members = members,
                                     !.invite_link = tok]
  /\ UNCHANGED <<clock, issued, ticks, grantLog>>

Me(c, u) ==
  /\ db' = Cur(onMe(<<db>>, c, u))
  /\ lastEv' = [NoEvent EXCEPT !.kind = "me", !.chat = c, !.from = u]
  /\ UNCHANGED <<clock, issued, ticks, grantLog>>

MyInvite(c, u, ok) ==
  /\ issued < MaxTokens
  /\ LET calls == NeedsLink(db, c, u)
         created == IF ok THEN issued + 1 ELSE NoToken
     IN /\ db' = Cur(onMyInvite(<<db>>, c, u, created))
        /\ issued' = IF calls /\ ok THEN issued + 1 ELSE issued
        /\ lastEv' = [NoEvent EXCEPT
                        !.kind = "myinvite", !.chat = c, !.from = u,
                        !.called = calls, !.failed = calls /\ ~ok,
                        !.reply = IF calls THEN created
                                  ELSE db.invite_links[c][u]]
  /\ UNCHANGED <<clock, ticks, grantLog>>

Tick(step) ==
  /\ ticks < MaxTicks
  /\ clock' = clock + step
  /\ ticks' = ticks + 1
  /\ lastEv' = [NoEvent EXCEPT !.kind = "tick"]
  /\ UNCHANGED <<db, issued, grantLog>>

\* the process stops after the k-th statement of a message update
CrashMessage(c, u, raw, target) ==
  /\ LET ev == MessageEvent(c, u, raw, target)
         tr == onMessage(<<db>>, ev, clock)
     IN \E k \in 2 .. (Len(tr) - 1) :
          /\ db' = tr[k]
          /\ grantLog' = Observe(db, tr[k], ev, clock)
          /\ lastEv' = [NoEvent EXCEPT !.kind = "message", !.done = FALSE,
                                       !.chat = c, !.from = u,
                                       !.text = raw, !.reply_to = target]
  /\ UNCHANGED <<clock, issued, ticks>>

\* the process stops after the k-th statement of a join update
CrashJoin(c, u, members, tok) ==
  /\ LET ev == JoinEvent(c, u, members, tok)
         tr == onMessage(<<db>>, ev, clock)
     IN \E k \in 2 .. (Len(tr) - 1) :
          /\ db' = tr[k]
          /\ lastEv' = [NoEvent EXCEPT !.kind = "join", !.done = FALSE,
                                       !.chat = c, !.from = u,
                                       !.new_chat_members = members,
                                       !.invite_link = tok]
  /\ UNCHANGED <<clock, issued, ticks, grantLog>>

\* ------------------------------------------------------- specifications
\* Spec: referral histories in one chat.  One user requests the invite link,
\* two users join (with the link, or with no link), every user sends plain
\* texts and "+" replies to the link owner's messages; histories are long
\* enough for a join to be confirmed and then revisited.
InviteChat == 1
Requester == 2
Joiners == {1, 3}
InviteGivers == {1, Requester}

InviteEvents ==
  \/ \E u \in Members : ReduceMessage(InviteChat, u, <<"h">>, NoReply)
  \/ \E u \in InviteGivers : ReduceMessage(InviteChat, u, <<"+">>, Requester)
  \/ \E j \in Joiners, tok \in {NoToken, 1} :
       ReduceJoin(InviteChat, j, <<j>>, tok)
  \/ \E ok \in BOOLEAN : MyInvite(InviteChat, Requester, ok)

Next ==
  \/ Work < MaxWork /\ InviteEvents
  \/ Tick(AgeTickStep(ticks))

Spec == Init /\ [][Next]_vars

\* SpecCrash: the referral histories of one joiner, in which the process may
\* stop between two store statements of an update; the state it leaves
\* behind is the last state of the history.
CrashJoiner == 1
CrashInputs == {<<<<"h">>, NoReply>>, <<<<"+">>, Requester>>}

CrashEvents ==
  \/ \E u \in Members, in \in CrashInputs :
       ReduceMessage(InviteChat, u, in[1], in[2])
  \/ \E tok \in {NoToken, 1} : ReduceJoin(InviteChat, NoUser, <<CrashJoiner>>, tok)
  \/ MyInvite(InviteChat, Requester, TRUE)

Crashes ==
  \/ \E u \in Members, in \in CrashInputs :
       CrashMessage(InviteChat, u, in[1], in[2])
  \/ \E tok \in {NoToken, 1} : CrashJoin(InviteChat, NoUser, <<CrashJoiner>>, tok)

NextCrash ==
  /\ lastEv.done
  /\ \/ Work < MaxWorkCrash /\ (CrashEvents \/ Crashes)
     \/ Tick(AgeTickStep(ticks))

SpecCrash == Init /\ [][NextCrash]_vars

\* SpecKarma: messaging histories.  Every text, "+" replies to every user
\* (also to oneself and to a sender without id), updates without sender,
\* the /me command; no joins and no links.
KarmaChats == {1}
KarmaGivers == {1, 2}
KarmaInputs == ({<<"+">>} \X (Members \cup {NoUser}))
                 \cup {<<<<" ", "+", " ">>, 1>>, <<<<"h">>, 1>>}

KarmaEvents ==
  \/ \E c \in KarmaChats, u \in KarmaGivers, in \in KarmaInputs :
       ReduceMessage(c, u, in[1], in[2])
  \/ \E c \in KarmaChats, raw \in Texts : ReduceMessage(c, 3, raw, NoReply)
  \/ \E c \in KarmaChats, in \in {<<<<"h">>, NoReply>>, <<<<"+">>, 1>>} :
       ReduceMessage(c, NoUser, in[1], in[2])
  \/ \E c \in KarmaChats, u \in Members : Me(c, u)

NextKarma ==
  \/ Work < MaxWorkKarma /\ KarmaEvents
  \/ Tick(CooldownTickStep(ticks))

SpecKarma == Init /\ [][NextKarma]_vars

\* SpecChats: the same users in two chats.  The link owner requests a link in
\* either chat, one user joins either chat with either chat's link, sends
\* texts and "+" replies in either chat.
ChatsJoiner == 1
ChatsEvents ==
  \/ \E c \in Chats : MyInvite(c, Requester, TRUE)
  \/ \E c \in Chats, tok \in 1 .. MaxTokens :
       ReduceJoin(c, ChatsJoiner, <<ChatsJoiner>>, tok)
  \/ \E c \in Chats : ReduceMessage(c, ChatsJoiner, <<"h">>, NoReply)
  \/ \E c \in Chats : ReduceMessage(c, ChatsJoiner, <<"+">>, Requester)

NextChats ==
  \/ Work < MaxWorkChats /\ ChatsEvents
  \/ Tick(AgeTickStep(ticks))

SpecChats == Init /\ [][NextChats]_vars

\* SpecBacklog: more pending joins than one sweep selects.  One user owns the
\* link, five users join in one notification and stay silent, a sixth joins
\* and sends texts; the sixth and the link owner keep sending a text that is
\* not counted, each of which runs the confirmation checks.
BacklogInviter == 7
BacklogTalker == 6
Silent == <<1, 2, 3, 4, 5>>

Nudge(u) == ReduceMessage(InviteChat, u, <<"/", "h">>, NoReply)

BacklogEvents ==
  \/ MyInvite(InviteChat, BacklogInviter, TRUE)
  \/ ReduceJoin(InviteChat, NoUser, Silent, 1)
  \/ ReduceJoin(InviteChat, BacklogTalker, <<BacklogTalker>>, 1)
  \/ ReduceMessage(InviteChat, BacklogTalker, <<"h">>, NoReply)

NextBacklog ==
  \/ Work < MaxWorkBacklog /\ BacklogEvents
  \/ Nudge(BacklogTalker)
  \/ Nudge(BacklogInviter)
  \/ Tick(AgeTickStep(ticks))

\* updates are handled as long as they arrive, and texts keep arriving
SpecBacklog ==
  /\ Init
  /\ [][NextBacklog]_vars
  /\ WF_vars(Nudge(BacklogTalker))
  /\ WF_vars(Nudge(BacklogInviter))

\* ---------------------------------------------------------- properties
Joined(d, c, j) == d.invite_joins[c][j]

ConfirmedOf(d, c, i) ==
  {j \in Users : /\ Joined(d, c, j).exists
                 /\ Joined(d, c, j).confirmed
                 /\ Joined(d, c, j).inviter_id = i}

PendingIn(d, c) ==
  {j \in Users : /\ Joined(d, c, j).exists
                 /\ ~Joined(d, c, j).confirmed
                 /\ Joined(d, c, j).inviter_id # NoUser}

RECURSIVE SumField(_, _, _, _)
SumField(d, c, S, field) ==
  IF S = {} THEN 0
  ELSE LET u == CHOOSE v \in S : TRUE
       IN d.stats[c][u][field] + SumField(d, c, S \ {u}, field)

ActorMessage(e) == e.kind = "message" /\ e.done /\ e.from # NoUser

\* C1: a join record goes from pending to confirmed only in a step that
\* handles a message of its chat, and only if at that time
\* now - joinedAt >= 86400 and the joined user's messages counter is >= 3.
C1_ConfirmOnlyWhenEligible ==
  [][\A c \in Chats, j \in Users :
       (~Joined(db, c, j).confirmed /\ Joined(db', c, j).confirmed)
       => /\ Joined(db, c, j).exists
          /\ lastEv'.kind = "message"
          /\ lastEv'.chat = c
          /\ clock' - Joined(db, c, j).joined_at >= 86400
          /\ db'.stats[c][j].messages >= 3]_vars

\* a sweep has confirmed one join and left another, not yet eligible, pending
W_C1 ==
  /\ ActorMessage(lastEv)
  /\ \E j \in Users, k \in Users :
       /\ Joined(db, lastEv.chat, j).confirmed
       /\ k \in PendingIn(db, lastEv.chat)

\* C2: a confirmed join record stays confirmed in every later step, and the
\* inviter's invitesConfirmed never exceeds the number of confirmed records
\* attributed to that inviter (each record is counted at most once).
C2_ConfirmedIsTerminal ==
  [][\A c \in Chats, u \in Users :
       /\ Joined(db, c, u).confirmed => Joined(db', c, u).confirmed
       /\ \/ db'.stats[c][u].invites_confirmed = 0
          \/ db'.stats[c][u].invites_confirmed
               <= Cardinality(ConfirmedOf(db', c, u))]_vars

\* a join notification has just been handled for a user whose join is confirmed
W_C2 ==
  /\ lastEv.kind = "join"
  /\ \E n \in DOMAIN lastEv.new_chat_members :
       Joined(db, lastEv.chat, lastEv.new_chat_members[n]).confirmed

\* C3: any two "+" replies of one giver in one chat that changed a karma
\* counter are at least 30 seconds apart, whoever the recipients are.
C3_GrantsThirtyApart ==
  \A i \in DOMAIN grantLog, k \in DOMAIN grantLog :
    (i < k /\ grantLog[i].chat = grantLog[k].chat
           /\ grantLog[i].giver = grantLog[k].giver)
    => grantLog[k].at - grantLog[i].at >= 30

\* a giver has just replied "+" to another recipient less than 30 s after a
\* grant of theirs was accepted
W_C3 ==
  /\ ActorMessage(lastEv)
  /\ lastEv.text = <<"+">>
  /\ lastEv.reply_to \in Users \ {lastEv.from}
  /\ \E i \in DOMAIN grantLog :
       /\ grantLog[i].chat = lastEv.chat
       /\ grantLog[i].giver = lastEv.from
       /\ grantLog[i].recipient # lastEv.reply_to
       /\ clock - grantLog[i].at > 0
       /\ clock - grantLog[i].at < 30

\* C4: each user's karma is the number of accepted grants that targeted them
\* and each user's karmaGiven the number of accepted grants they made.
C4_KarmaCountsGrants ==
  \A c \in Chats, u \in Users :
    /\ db.stats[c][u].karma =
         Cardinality({i \in DOMAIN grantLog :
                        grantLog[i].chat = c /\ grantLog[i].recipient = u})
    /\ db.stats[c][u].karma_given =
         Cardinality({i \in DOMAIN grantLog :
                        grantLog[i].chat = c /\ grantLog[i].giver = u})

\* two grants have been accepted, to two different recipients
W_C4 ==
  \E i \in DOMAIN grantLog, k \in DOMAIN grantLog :
    grantLog[i].recipient # grantLog[k].recipient

\* C5: in every state, also the one a stopped process leaves behind, the karma
\* received in a chat equals the karma given in it (no grant has moved one
\* counter without the other).
C5_GrantIsOneTransaction ==
  \A c \in Chats :
    SumField(db, c, Users, "karma") = SumField(db, c, Users, "karma_given")

\* C6: in every state, also the one a stopped process leaves behind, an
\* inviter's invitesConfirmed is the number of confirmed join records
\* attributed to that inviter (no record is flagged without the counter shift).
C6_ConfirmIsOneTransaction ==
  \A c \in Chats, i \in Users :
    db.stats[c][i].invites_confirmed = Cardinality(ConfirmedOf(db, c, i))

\* C7: every completed non-join update with a sender ends with a sweep of its
\* chat: each pending attributed join of the batch that is eligible at that
\* time is confirmed when the update is done.
C7_EveryActorMessageSweeps ==
  [][ActorMessage(lastEv')
      => \A j \in PendingIn(db, lastEv'.chat) :
           ( /\ Cardinality(PendingIn(db, lastEv'.chat)) <= BatchLimit
             /\ clock' - Joined(db, lastEv'.chat, j).joined_at >= 86400
             /\ db'.stats[lastEv'.chat][j].messages >= 3 )
           => Joined(db', lastEv'.chat, j).confirmed]_vars

\* C8: when a completed non-join update with a sender finds a pending join of A
\* attributed to B eligible (at most batchLimit pending joins in the chat, and
\* no other pending join of B, so that A's is the only one counted), then
\* afterwards A's join is confirmed, B's invitesPending is one lower and B's
\* invitesConfirmed one higher.
C8_EligibleJoinConfirmsOnNextEvent ==
  [][ActorMessage(lastEv')
      => \A a \in PendingIn(db, lastEv'.chat) :
           ( /\ Cardinality(PendingIn(db, lastEv'.chat)) <= BatchLimit
             /\ clock' - Joined(db, lastEv'.chat, a).joined_at >= 86400
             /\ db'.stats[lastEv'.chat][a].messages >= 3
             /\ \A o \in PendingIn(db, lastEv'.chat) \ {a} :
                  Joined(db, lastEv'.chat, o).inviter_id
                    # Joined(db, lastEv'.chat, a).inviter_id )
           => LET c == lastEv'.chat
                  b == Joined(db, c, a).inviter_id
              IN /\ Joined(db', c, a).confirmed
                 /\ db'.stats[c][b].invites_pending
                      = db.stats[c][b].invites_pending - 1
                 /\ db'.stats[c][b].invites_confirmed
                      = db.stats[c][b].invites_confirmed + 1]_vars

\* C9 as stated: a user's messages counter grows by one in exactly the steps
\* that complete an update of that user whose text is non-empty and does not
\* start with "/".
C9_CountsTextsNotStartingWithSlash ==
  [][\A c \in Chats, u \in Users :
       db'.stats[c][u].messages - db.stats[c][u].messages
         = IF /\ ActorMessage(lastEv') /\ lastEv'.chat = c /\ lastEv'.from = u
              /\ lastEv'.text # << >>
              /\ Head(lastEv'.text) # "/"
           THEN 1 ELSE 0]_vars

NonSpace(raw) == SelectSeq(raw, LAMBDA ch : ch # " ")

\* C9 amended: a user's messages counter grows by one in exactly the steps
\* that complete an update of that user whose text is non-empty and whose
\* first character after the leading whitespace, if any, is not "/".
C9_CountsTextsNotCommandsAfterTrim ==
  [][\A c \in Chats, u \in Users :
       db'.stats[c][u].messages - db.stats[c][u].messages
         = IF /\ ActorMessage(lastEv') /\ lastEv'.chat = c /\ lastEv'.from = u
              /\ lastEv'.text # << >>
              /\ (NonSpace(lastEv'.text) = << >>
                  \/ Head(NonSpace(lastEv'.text)) # "/")
           THEN 1 ELSE 0]_vars

\* two users have counted messages and the last update, a "+" reply of a user
\* to their own message, was counted too
W_C9 ==
  /\ ActorMessage(lastEv)
  /\ lastEv.text = <<"+">>
  /\ lastEv.reply_to = lastEv.from
  /\ db.stats[lastEv.chat][lastEv.from].messages >= 2
  /\ \E v \in Users \ {lastEv.from} : db.stats[lastEv.chat][v].messages >= 1

\* C10: in every step, no inviter's invitesPending + invitesConfirmed
\* decreases and no invitesPending is below 0.
C10_InviteTotalsNeverDecrease ==
  [][\A c \in Chats, i \in Users :
       /\ db'.stats[c][i].invites_pending + db'.stats[c][i].invites_confirmed
            >= db.stats[c][i].invites_pending + db.stats[c][i].invites_confirmed
       /\ db'.stats[c][i].invites_pending >= 0]_vars

\* an inviter has a confirmed join and, after a repeated join notification,
\* still a pending count
W_C10 ==
  \E c \in Chats, i \in Users :
    /\ db.stats[c][i].invites_confirmed >= 1
    /\ db.stats[c][i].invites_pending >= 1

\* C11: a join notification for a user who already has a join row leaves that
\* row (inviter, join time, confirmed flag) exactly as it was, whatever token
\* the notification carries.
C11_JoinIsIdempotent ==
  [][lastEv'.kind = "join"
     => \A j \in Users :
          Joined(db, lastEv'.chat, j).exists
          => Joined(db', lastEv'.chat, j) = Joined(db, lastEv'.chat, j)]_vars

\* a join notification has just been handled, at a later time and with a token
\* of another inviter than the one recorded, for a user who had a row already
W_C11 ==
  /\ lastEv.kind = "join"
  /\ \E n \in DOMAIN lastEv.new_chat_members :
       LET row == Joined(db, lastEv.chat, lastEv.new_chat_members[n])
       IN /\ row.joined_at < clock
          /\ row.inviter_id # LookupInviter(db, lastEv.chat, lastEv.invite_link)

\* C12: once a link is stored for (chat, inviter) it is never replaced, and a
\* /myinvite of that pair replies with the stored link without calling the
\* creator.
C12_LinkIsReused ==
  [][\A c \in Chats, u \in Users :
       db.invite_links[c][u] # NoToken
       => /\ db'.invite_links[c][u] = db.invite_links[c][u]
          /\ (lastEv'.kind = "myinvite" /\ lastEv'.chat = c /\ lastEv'.from = u)
             => /\ ~lastEv'.called
                /\ lastEv'.reply = db.invite_links[c][u]]_vars

\* a /myinvite has just been answered with the link stored by an earlier one
W_C12 ==
  /\ lastEv.kind = "myinvite"
  /\ ~lastEv.called
  /\ lastEv.reply # NoToken
  /\ lastEv.reply = db.invite_links[lastEv.chat][lastEv.from]

\* C14: a /myinvite whose creator call fails writes no link row and hands out
\* no link; one whose creator call succeeds stores exactly the created link,
\* whether or not earlier calls failed.
C14_CreatorFailureWritesNoRow ==
  [][lastEv'.kind = "myinvite"
     => LET c == lastEv'.chat
            u == lastEv'.from
        IN /\ lastEv'.failed
              => /\ db'.invite_links = db.invite_links
                 /\ db'.invite_links[c][u] = NoToken
                 /\ lastEv'.reply = NoToken
           /\ (lastEv'.called /\ ~lastEv'.failed)
              => /\ lastEv'.reply # NoToken
                 /\ db'.invite_links =
                      [db.invite_links EXCEPT ![c][u] = lastEv'.reply]]_vars

\* the creator call of a /myinvite has just failed, and the requester, whose
\* user rows the command has written, has no link row
W_C14 ==
  /\ lastEv.kind = "myinvite"
  /\ lastEv.failed
  /\ db.users[lastEv.chat][lastEv.from]
  /\ db.invite_links[lastEv.chat][lastEv.from] = NoToken

\* C15: a join notification changes no messages, karma, karmaGiven or
\* invitesConfirmed counter, no cooldown row and no confirmed flag of an
\* existing join row.
C15_JoinEventFrame ==
  [][lastEv'.kind = "join"
     => \A c \in Chats, u \in Users :
          /\ db'.stats[c][u].messages = db.stats[c][u].messages
          /\ db'.stats[c][u].karma = db.stats[c][u].karma
          /\ db'.stats[c][u].karma_given = db.stats[c][u].karma_given
          /\ db'.stats[c][u].invites_confirmed = db.stats[c][u].invites_confirmed
          /\ db'.karma_cooldowns[c][u] = db.karma_cooldowns[c][u]
          /\ Joined(db, c, u).exists
             => Joined(db', c, u).confirmed = Joined(db, c, u).confirmed]_vars

\* a join notification with a sender has just been handled in a chat where an
\* eligible join is pending
W_C15 ==
  /\ lastEv.kind = "join"
  /\ lastEv.from # NoUser
  /\ \E j \in PendingIn(db, lastEv.chat) :
       /\ clock - Joined(db, lastEv.chat, j).joined_at >= 86400
       /\ db.stats[lastEv.chat][j].messages >= 3

PendingOf(d, c, i) ==
  {j \in Users : /\ Joined(d, c, j).exists
                 /\ ~Joined(d, c, j).confirmed
                 /\ Joined(d, c, j).inviter_id = i}

\* C18: after completely handled updates, every inviter's invitesPending is
\* the number of unconfirmed join rows attributed to them and invitesConfirmed
\* the number of confirmed ones.
C18_CountersEqualRowCounts ==
  \A c \in Chats, i \in Users :
    /\ db.stats[c][i].invites_pending = Cardinality(PendingOf(db, c, i))
    /\ db.stats[c][i].invites_confirmed = Cardinality(ConfirmedOf(db, c, i))

IsGrantAttempt(e) ==
  /\ ActorMessage(e)
  /\ Trim(e.text) = <<"+">>
  /\ e.reply_to \in Users

\* C13: a "+" reply of a user to their own message changes no karma or
\* karmaGiven counter of anyone and no cooldown row.
C13_SelfGrantChangesNothing ==
  [][(IsGrantAttempt(lastEv') /\ lastEv'.reply_to = lastEv'.from)
     => \A c \in Chats, u \in Users :
          /\ db'.stats[c][u].karma = db.stats[c][u].karma
          /\ db'.stats[c][u].karma_given = db.stats[c][u].karma_given
          /\ db'.karma_cooldowns[c][u] = db.karma_cooldowns[c][u]]_vars

\* a user whose last grant is 30 s old or older, so that a grant to someone
\* else would be accepted, has just replied "+" to their own message
W_C13 ==
  /\ IsGrantAttempt(lastEv)
  /\ lastEv.reply_to = lastEv.from
  /\ db.karma_cooldowns[lastEv.chat][lastEv.from] # NoCooldown
  /\ clock - db.karma_cooldowns[lastEv.chat][lastEv.from] >= 30

GrantedWithin(log, c, u, t, window) ==
  \E i \in DOMAIN log :
    log[i].chat = c /\ log[i].giver = u /\ t - log[i].at < window

\* C19: a giver's cooldown row changes only in a step that handles a "+" reply
\* of that giver which raises the recipient's karma; and a "+" reply to
\* another user is accepted whenever the giver's last accepted grant is 30 s
\* old or older.
C19_CooldownWrittenOnlyByGrant ==
  [][\A c \in Chats, u \in Users :
       /\ db'.karma_cooldowns[c][u] # db.karma_cooldowns[c][u]
          => /\ IsGrantAttempt(lastEv')
             /\ lastEv'.chat = c
             /\ lastEv'.from = u
             /\ lastEv'.reply_to # u
             /\ db'.stats[c][lastEv'.reply_to].karma
                  = db.stats[c][lastEv'.reply_to].karma + 1
       /\ ( /\ IsGrantAttempt(lastEv')
            /\ lastEv'.chat = c
            /\ lastEv'.from = u
            /\ lastEv'.reply_to # u
            /\ ~GrantedWithin(grantLog, c, u, clock', 30) )
          => db'.stats[c][lastEv'.reply_to].karma
               = db.stats[c][lastEv'.reply_to].karma + 1]_vars

\* a "+" reply has just been rejected, by the cooldown or as a reply to
\* oneself, and the giver's cooldown row still holds the earlier time of the
\* giver's last accepted grant
W_C19 ==
  /\ IsGrantAttempt(lastEv)
  /\ LET cd == db.karma_cooldowns[lastEv.chat][lastEv.from]
     IN /\ cd # NoCooldown
        /\ cd < clock
        /\ clock - cd < 30
        /\ grantLog # << >>
        /\ grantLog[Len(grantLog)].giver = lastEv.from
        /\ grantLog[Len(grantLog)].at = cd

\* C16: a step that handles an update of one chat leaves the five tables of
\* every other chat unchanged; a join is attributed only to an inviter whose
\* link is stored in the chat of the join; and a "+" reply to another user is
\* accepted unless the giver has an accepted grant less than 30 s old in the
\* same chat.
C16_OtherChatsUntouched ==
  [][/\ \A c \in Chats :
          c # lastEv'.chat
          => /\ db'.users[c] = db.users[c]
             /\ db'.stats[c] = db.stats[c]
             /\ db'.karma_cooldowns[c] = db.karma_cooldowns[c]
             /\ db'.invite_links[c] = db.invite_links[c]
             /\ db'.invite_joins[c] = db.invite_joins[c]
     /\ \A c \in Chats, j \in Users :
          (Joined(db', c, j).exists /\ Joined(db', c, j).inviter_id # NoUser)
          => db'.invite_links[c][Joined(db', c, j).inviter_id] # NoToken
     /\ ( /\ IsGrantAttempt(lastEv')
          /\ lastEv'.reply_to # lastEv'.from
          /\ ~GrantedWithin(grantLog, lastEv'.chat, lastEv'.from, clock', 30) )
        => db'.stats[lastEv'.chat][lastEv'.reply_to].karma
             = db.stats[lastEv'.chat][lastEv'.reply_to].karma + 1]_vars

\* a user who granted karma in the other chat less than 30 s ago and whose
\* join there is attributed has just joined this chat with the other chat's
\* link, and the join is attributed to nobody
W_C16 ==
  /\ lastEv.kind = "join"
  /\ \E o \in Chats \ {lastEv.chat}, i \in Users :
       /\ db.invite_links[o][i] = lastEv.invite_link
       /\ \E n \in DOMAIN lastEv.new_chat_members :
            LET j == lastEv.new_chat_members[n]
            IN /\ Joined(db, lastEv.chat, j).exists
               /\ Joined(db, lastEv.chat, j).inviter_id = NoUser
               /\ Joined(db, o, j).inviter_id = i
               /\ GrantedWithin(grantLog, o, j, clock, 30)
               /\ db.karma_cooldowns[lastEv.chat][j] = NoCooldown

Eligible(d, c, j, t) ==
  /\ j \in PendingIn(d, c)
  /\ t - Joined(d, c, j).joined_at >= 86400
  /\ d.stats[c][j].messages >= 3

\* C17: while texts keep being handled in the chat, a pending attributed join
\* that is eligible is eventually confirmed, however many other joins are
\* pending (stated for the join of the user who sends the texts).
C17_EligibleJoinEventuallyConfirmed ==
  Eligible(db, InviteChat, BacklogTalker, clock)
    ~> Joined(db, InviteChat, BacklogTalker).confirmed

====
